---- MODULE Spec2Model ----
(***************************************************************************)
(* Verification model of the automata simulators:                          *)
(*   machine.py           batch finite-automaton simulation                *)
(*   secvential_input.py  interactive finite-automaton stepper             *)
(*   pda.py               pushdown configuration search                    *)
(*   turing.py            bounded-step Turing machine                      *)
(***************************************************************************)
EXTENDS Integers, Sequences, FiniteSets, TLC

\* ------------------------------------------------------------------------
\* Bounds of the finite-automaton universe
\* ------------------------------------------------------------------------
States == {"q0", "q1", "q2"}
Symbols == {"a", "b"}
\* characters an input string may hold: the declared symbols and one stranger
InputChars == Symbols \cup {"x"}
MaxLen == 2
MaxRules == 2
MaxEpsRules == 1

Keys == States \X Symbols

\* bounds of the interleaved runs
Runs == {1, 2}
MaxParLen == 1
MaxParRules == 1
\* epsilon rules of the definitions run statement by statement
MaxBatchEps == 2

\* ------------------------------------------------------------------------
\* Bounds of the pushdown universe
\* ------------------------------------------------------------------------
PdaStates == {"p0", "p1"}
PdaAlphabet == {"a", "b"}
MaxPdaLen == 4
MaxPdaRules == 2
MaxStack == 4
\* the exploration ceiling a caller would pass
MaxConfigurations == 3

\* ------------------------------------------------------------------------
\* Bounds of the Turing machine universe
\* ------------------------------------------------------------------------
TmStates == {"s0", "s1", "sA", "sR"}
TmAcceptStates == {"sA"}
TmRejectStates == {"sR"}
blank_symbol == "_"
TapeAlphabet == {"1", blank_symbol}
\* blank cells simulate puts on each side of the input
Margin == 100
MaxTmLen == 2
MaxTmRules == 2
MaxSteps == 102
StepChoices == {0, 1, 3, MaxSteps}

\* all strings over cs of length at most n
SeqsUpTo(cs, n) == UNION {[1..k -> cs] : k \in 0..n}

\* the iteration orders a Python set of states can show: one per permutation
Orders == {o \in [1..Cardinality(States) -> States] :
             \A i, j \in DOMAIN o : i # j => o[i] # o[j]}

SortedOrder == <<"q0", "q1", "q2">>

VARIABLES
  \* FiniteAutomaton fields (machine.py / secvential_input.py __init__)
  fa_type, transitions, epsilon_transitions, start_state, accept_states,
  iter_order,
  \* one call of _epsilon_closure
  cl_states, cl_result, cl_pc,
  \* one call of FiniteAutomaton.simulate (machine.py)
  fa_input, fa_result, fa_pc,
  \* one session of FiniteAutomaton.interactive_simulation
  current_states, input_so_far, st_typed, st_out, st_pc,
  \* PushdownAutomaton fields and one call of its simulate (pda.py)
  pda_transitions, pda_start_state, pda_accept_states,
  pda_input, pda_queue, pda_visited, pda_result, pda_pc,
  \* TuringMachine fields and one call of its simulate (turing.py)
  tm_transitions, tm_start_state, tm_input, max_steps,
  tape, head_position, current_state, steps, tm_outcome, tm_result, tm_pc,
  \* calls of _simulate_nfa in progress on one FiniteAutomaton, and calls of
  \* PushdownAutomaton.simulate in progress on one PushdownAutomaton: the
  \* locals of each call
  nfa_calls, pda_calls,
  \* one call of FiniteAutomaton.simulate followed statement by statement:
  \* its locals and those of the _epsilon_closure call it is in
  fa_run

faDefVars == <<fa_type, transitions, epsilon_transitions, start_state,
               accept_states, iter_order>>
clVars == <<cl_states, cl_result, cl_pc>>
faVars == <<fa_input, fa_result, fa_pc>>
stVars == <<current_states, input_so_far, st_typed, st_out, st_pc>>
pdaVars == <<pda_transitions, pda_start_state, pda_accept_states,
             pda_input, pda_queue, pda_visited, pda_result, pda_pc>>
tmVars == <<tm_transitions, tm_start_state, tm_input, max_steps,
            tape, head_position, current_state, steps, tm_outcome, tm_result,
            tm_pc>>
parVars == <<nfa_calls, pda_calls, fa_run>>
vars == <<faDefVars, clVars, faVars, stVars, pdaVars, tmVars, parVars>>

\* ------------------------------------------------------------------------
\* FiniteAutomaton definition as load_from_file leaves it
\* ------------------------------------------------------------------------
RuleCount(t) == Cardinality({<<k, q>> \in Keys \X States : q \in t[k]})
EpsCount(e) == Cardinality({<<p, q>> \in States \X States : q \in e[p]})

NoRules == [k \in Keys |-> {}]
NoEps == [s \in States |-> {}]

\* type is "NFA" as soon as any epsilon rule was read, so a DFA has none.
\* The iteration order decides a result only where _simulate_dfa takes the
\* first element of a target set; for NFA-typed definitions it only permutes
\* the closure queue, which SpecClosure explores under every order.
FADefInit ==
  /\ fa_type \in {"DFA", "NFA"}
  /\ transitions \in {t \in [Keys -> SUBSET States] : RuleCount(t) <= MaxRules}
  /\ epsilon_transitions \in
       {e \in [States -> SUBSET States] :
          /\ EpsCount(e) <= MaxEpsRules
          /\ fa_type = "DFA" => e = NoEps}
  /\ start_state = "q0"
  /\ accept_states \in (SUBSET States) \ {{}}
  /\ iter_order \in IF fa_type = "DFA" THEN Orders ELSE {SortedOrder}

FADefIdle ==
  /\ fa_type = "DFA"
  /\ transitions = NoRules
  /\ epsilon_transitions = NoEps
  /\ start_state = "q0"
  /\ accept_states = {"q0"}
  /\ iter_order = SortedOrder

\* iter(s): the elements of a set in the process's iteration order
iter(s) == SelectSeq(iter_order, LAMBDA q : q \in s)

\* ------------------------------------------------------------------------
\* _epsilon_closure
\* ------------------------------------------------------------------------
\* variant: newly found states are added to the closure but never enqueued
RECURSIVE closure_loop_shallow(_, _)
closure_loop_shallow(closure, queue) ==
  IF queue = <<>> THEN closure
  ELSE LET state == Head(queue)
           fresh == epsilon_transitions[state] \ closure
       IN closure_loop_shallow(closure \cup fresh, Tail(queue))

\* variant: the queue is overwritten with the newly found states
RECURSIVE closure_loop_overwrite(_, _)
closure_loop_overwrite(closure, queue) ==
  IF queue = <<>> THEN closure
  ELSE LET state == Head(queue)
           fresh == epsilon_transitions[state] \ closure
       IN closure_loop_overwrite(closure \cup fresh, iter(fresh))

RECURSIVE closure_loop(_, _)
closure_loop(closure, queue) ==
  IF queue = <<>> THEN closure
  ELSE LET state == Head(queue)
           fresh == epsilon_transitions[state] \ closure
       IN closure_loop(closure \cup fresh, Tail(queue) \o iter(fresh))

\* variant: the closure starts empty instead of as a copy of the argument
_epsilon_closure_unseeded(states) == closure_loop({}, iter(states))

_epsilon_closure(states) == closure_loop(states, iter(states))

ClInit ==
  /\ cl_states \in SUBSET States
  /\ cl_result = {}
  /\ cl_pc = "call"

ClIdle ==
  /\ cl_states = {}
  /\ cl_result = {}
  /\ cl_pc = "idle"

CallClosure ==
  /\ cl_pc = "call"
  /\ cl_result' = _epsilon_closure(cl_states)
  /\ cl_pc' = "done"
  /\ UNCHANGED <<cl_states, faDefVars, faVars, stVars, pdaVars, tmVars,
                 parVars>>

\* ------------------------------------------------------------------------
\* FiniteAutomaton.simulate (machine.py)
\* ------------------------------------------------------------------------
Verdict(acc, kind, sts) == [accepted |-> acc, kind |-> kind, states |-> sts]

RECURSIVE dfa_loop(_, _)
dfa_loop(cur_state, rest) ==
  IF rest = <<>>
  THEN Verdict(cur_state \in accept_states, "state", {cur_state})
  ELSE LET symbol == Head(rest)
           key == <<cur_state, symbol>>
       IN IF symbol \notin Symbols
          THEN Verdict(FALSE, "InvalidSymbol", {})
          ELSE IF transitions[key] # {}
          THEN dfa_loop(Head(iter(transitions[key])), Tail(rest))
          ELSE Verdict(FALSE, "NoTransition", {})

_simulate_dfa(input_string) == dfa_loop(start_state, input_string)

RECURSIVE nfa_loop(_, _)
nfa_loop(cur, rest) ==
  IF rest = <<>>
  THEN Verdict(cur \cap accept_states # {}, "states", cur)
  ELSE LET symbol == Head(rest)
           next_states == UNION {transitions[<<s, symbol>>] : s \in cur}
       IN IF symbol \notin Symbols
          THEN Verdict(FALSE, "InvalidSymbol", {})
          ELSE IF next_states = {}
          THEN Verdict(FALSE, "NoTransition", {})
          ELSE nfa_loop(_epsilon_closure(next_states), Tail(rest))

_simulate_nfa(input_string) ==
  nfa_loop(_epsilon_closure({start_state}), input_string)

simulate(input_string) ==
  IF fa_type = "DFA" THEN _simulate_dfa(input_string)
  ELSE _simulate_nfa(input_string)

NoVerdict == Verdict(FALSE, "none", {})

\* the value a caller of simulate holds: a pair of a bool and either a str (a
\* state name or a message) or a set of states; main tells the two apart only
\* with isinstance(result, set)
result_variant(r) ==
  <<r.accepted, IF r.kind = "states" THEN "set" ELSE "str">>

FAInit ==
  /\ fa_input \in SeqsUpTo(InputChars, MaxLen)
  /\ fa_result = NoVerdict
  /\ fa_pc = "call"

FAIdle ==
  /\ fa_input = <<>>
  /\ fa_result = NoVerdict
  /\ fa_pc = "idle"

Simulate ==
  /\ fa_pc = "call"
  /\ fa_result' = simulate(fa_input)
  /\ fa_pc' = "done"
  /\ UNCHANGED <<fa_input, faDefVars, clVars, stVars, pdaVars, tmVars,
                 parVars>>

\* ------------------------------------------------------------------------
\* FiniteAutomaton.interactive_simulation (secvential_input.py)
\* ------------------------------------------------------------------------
get_possible_transitions(cur, symbol) ==
  LET next_states == UNION {transitions[<<s, symbol>>] : s \in cur}
  IN IF next_states # {} THEN _epsilon_closure(next_states) ELSE {}

\* what _show_status and _show_help compute for each declared symbol; a
\* symbol whose set is empty gets no line
available_transitions(cur) ==
  [symbol \in Symbols |-> get_possible_transitions(cur, symbol)]

\* variant: the start state alone, whatever the type
initial_states_unclosed == {start_state}

initial_states ==
  IF fa_type = "DFA" THEN {start_state} ELSE _epsilon_closure({start_state})

\* st_typed is the console input consumed so far: the declared symbols entered
\* since the session started or was last reset
StInit ==
  /\ current_states = initial_states
  /\ input_so_far = <<>>
  /\ st_typed = <<>>
  /\ st_out = "status"
  /\ st_pc = "prompt"

StIdle ==
  /\ current_states = {}
  /\ input_so_far = <<>>
  /\ st_typed = <<>>
  /\ st_out = "none"
  /\ st_pc = "idle"

EnterSymbol(symbol) ==
  /\ st_pc = "prompt"
  /\ symbol \in Symbols
  /\ Len(st_typed) < MaxLen
  /\ st_typed' = Append(st_typed, symbol)
  /\ LET next_states == get_possible_transitions(current_states, symbol)
     IN IF next_states = {}
        THEN /\ st_out' = "stuck"
             /\ UNCHANGED <<current_states, input_so_far, st_pc>>
        ELSE /\ current_states' = next_states
             /\ input_so_far' = Append(input_so_far, symbol)
             /\ IF next_states \cap accept_states # {}
                THEN st_out' = "accepted" /\ st_pc' = "exited"
                ELSE st_out' = "status" /\ st_pc' = "prompt"
  /\ UNCHANGED <<faDefVars, clVars, faVars, pdaVars, tmVars, parVars>>

\* variant: an undeclared symbol empties the configuration
EnterInvalidSymbol_dying(symbol) ==
  /\ st_pc = "prompt"
  /\ symbol \notin Symbols
  /\ st_out' = "invalid"
  /\ current_states' = {}
  /\ UNCHANGED <<input_so_far, st_typed, st_pc>>
  /\ UNCHANGED <<faDefVars, clVars, faVars, pdaVars, tmVars, parVars>>

EnterInvalidSymbol(symbol) ==
  /\ st_pc = "prompt"
  /\ symbol \notin Symbols
  /\ st_out' = "invalid"
  /\ UNCHANGED <<current_states, input_so_far, st_typed, st_pc>>
  /\ UNCHANGED <<faDefVars, clVars, faVars, pdaVars, tmVars, parVars>>

EnterLongLine ==
  /\ st_pc = "prompt"
  /\ st_out' = "one_symbol"
  /\ UNCHANGED <<current_states, input_so_far, st_typed, st_pc>>
  /\ UNCHANGED <<faDefVars, clVars, faVars, pdaVars, tmVars, parVars>>

Reset ==
  /\ st_pc = "prompt"
  /\ current_states' = initial_states
  /\ input_so_far' = <<>>
  /\ st_typed' = <<>>
  /\ st_out' = "reset"
  /\ UNCHANGED st_pc
  /\ UNCHANGED <<faDefVars, clVars, faVars, pdaVars, tmVars, parVars>>

ShowStatus ==
  /\ st_pc = "prompt"
  /\ st_out' = "status"
  /\ UNCHANGED <<current_states, input_so_far, st_typed, st_pc>>
  /\ UNCHANGED <<faDefVars, clVars, faVars, pdaVars, tmVars, parVars>>

ShowHelp ==
  /\ st_pc = "prompt"
  /\ st_out' = "help"
  /\ UNCHANGED <<current_states, input_so_far, st_typed, st_pc>>
  /\ UNCHANGED <<faDefVars, clVars, faVars, pdaVars, tmVars, parVars>>

Quit ==
  /\ st_pc = "prompt"
  /\ st_pc' = "quit"
  /\ st_out' = "goodbye"
  /\ UNCHANGED <<current_states, input_so_far, st_typed>>
  /\ UNCHANGED <<faDefVars, clVars, faVars, pdaVars, tmVars, parVars>>

\* ------------------------------------------------------------------------
\* PushdownAutomaton (pda.py)
\* ------------------------------------------------------------------------
\* add_transition: "" stands for epsilon; stack_push is a string of symbols
PdaRule(f, i, st, t, p) ==
  [from |-> f, input |-> i, stack_top |-> st, to |-> t, stack_push |-> p]

\* the rules definitions are drawn from
PdaRuleUniverse ==
  {PdaRule(f, i, st, t, p) :
     f \in PdaStates, i \in {"", "a"}, st \in {"", "$", "A"},
     t \in PdaStates, p \in {<<>>, <<"A">>}}

RECURSIVE RuleList(_)
RuleList(S) ==
  IF S = {} THEN <<>>
  ELSE LET r == CHOOSE x \in S : TRUE IN <<r>> \o RuleList(S \ {r})

\* balanced strings, a opening and b closing; accept on the bottom marker
BalancedRules ==
  << PdaRule("p0", "a", "", "p0", <<"A">>),
     PdaRule("p0", "b", "A", "p0", <<>>),
     PdaRule("p0", "", "$", "p1", <<"$">>) >>

\* a^n b^n with two symbols pushed per a and popped one by one
DoublePushRules ==
  << PdaRule("p0", "a", "$", "p0", <<"A", "A", "$">>),
     PdaRule("p0", "b", "A", "p1", <<>>),
     PdaRule("p1", "", "A", "p0", <<>>),
     PdaRule("p1", "", "$", "p1", <<"$">>) >>

\* the bottom marker is popped, then a rule that reads no stack symbol
EmptyStackRules ==
  << PdaRule("p0", "a", "$", "p0", <<>>),
     PdaRule("p0", "", "", "p1", <<"A">>) >>

\* a two-symbol push that reads no stack symbol, then one pop per symbol
RoundTripRules ==
  << PdaRule("p0", "a", "", "p0", <<"A", "B">>),
     PdaRule("p0", "", "A", "p0", <<>>),
     PdaRule("p0", "", "B", "p1", <<>>) >>

\* the subsets of U with at most n elements
RECURSIVE SubsetsUpTo(_, _)
SubsetsUpTo(U, n) ==
  IF n = 0 THEN {{}}
  ELSE LET P == SubsetsUpTo(U, n - 1) IN P \cup {T \cup {r} : T \in P, r \in U}

CuratedRuleLists ==
  {BalancedRules, DoublePushRules, EmptyStackRules, RoundTripRules}

PdaRuleLists ==
  {RuleList(S) : S \in SubsetsUpTo(PdaRuleUniverse, MaxPdaRules)}
    \cup CuratedRuleLists

PdaDefInit ==
  /\ pda_transitions \in PdaRuleLists
  /\ pda_start_state = "p0"
  /\ pda_accept_states = {"p1"}

Reverse(s) == [i \in 1..Len(s) |-> s[Len(s) + 1 - i]]
Last(s) == s[Len(s)]
Front(s) == SubSeq(s, 1, Len(s) - 1)

Config(st, pos, stack) == [state |-> st, pos |-> pos, stack |-> stack]

\* input_symbol of the loop body: '' once the input is used up
input_symbol(pos) ==
  IF pos = Len(pda_input) THEN "" ELSE pda_input[pos + 1]

\* the three filters of the for loop
applies(t, cfg) ==
  /\ t.from = cfg.state
  /\ (t.input = input_symbol(cfg.pos) \/ t.input = "")
  /\ cfg.stack # <<>>
  /\ (t.stack_top = Last(cfg.stack) \/ t.stack_top = "")

\* variant: the push string is appended in reading order
new_config_unreversed(t, cfg) ==
  LET popped == IF t.stack_top # "" THEN Front(cfg.stack) ELSE cfg.stack
      new_stack == IF t.stack_push # <<>>
                   THEN popped \o t.stack_push
                   ELSE popped
      new_pos == cfg.pos + (IF t.input # "" THEN 1 ELSE 0)
  IN Config(t.to, new_pos, new_stack)

\* variant: the cursor advances on every rule
new_config_always_advance(t, cfg) ==
  LET popped == IF t.stack_top # "" THEN Front(cfg.stack) ELSE cfg.stack
      new_stack == IF t.stack_push # <<>>
                   THEN popped \o Reverse(t.stack_push)
                   ELSE popped
      new_pos == cfg.pos + 1
  IN Config(t.to, new_pos, new_stack)

\* variant: the top is popped whatever stack symbol the rule reads
new_config_always_pop(t, cfg) ==
  LET popped == Front(cfg.stack)
      new_stack == IF t.stack_push # <<>>
                   THEN popped \o Reverse(t.stack_push)
                   ELSE popped
      new_pos == cfg.pos + (IF t.input # "" THEN 1 ELSE 0)
  IN Config(t.to, new_pos, new_stack)

new_config(t, cfg) ==
  LET popped == IF t.stack_top # "" THEN Front(cfg.stack) ELSE cfg.stack
      new_stack == IF t.stack_push # <<>>
                   THEN popped \o Reverse(t.stack_push)
                   ELSE popped
      new_pos == cfg.pos + (IF t.input # "" THEN 1 ELSE 0)
  IN Config(t.to, new_pos, new_stack)

\* what the for loop appends to the queue, rules i.. in list order
RECURSIVE successors(_, _)
successors(cfg, i) ==
  IF i > Len(pda_transitions) THEN <<>>
  ELSE (IF applies(pda_transitions[i], cfg)
        THEN <<new_config(pda_transitions[i], cfg)>>
        ELSE <<>>) \o successors(cfg, i + 1)

initial_config == Config(pda_start_state, 0, <<"$">>)

\* simulate takes any string: besides the strings over the declared alphabet,
\* two that hold a character the definition does not declare
StrayInputs == {<<"x">>, <<"a", "x">>}

\* the rules of PdaRuleUniverse read a or nothing, so in a definition drawn
\* from it a b only stops a run where a stray character does; the curated
\* definitions are run on every string over the declared alphabet
PdaInputs(rules) ==
  (IF rules \in CuratedRuleLists
   THEN SeqsUpTo(PdaAlphabet, MaxPdaLen)
   ELSE SeqsUpTo({"a"}, MaxPdaLen) \cup {<<"b">>, <<"a", "b">>})
    \cup StrayInputs

PdaInit ==
  /\ PdaDefInit
  /\ pda_input \in PdaInputs(pda_transitions)
  /\ pda_queue = <<initial_config>>
  /\ pda_visited = {}
  /\ pda_result = "none"
  /\ pda_pc = "loop"

PdaIdle ==
  /\ pda_transitions = <<>>
  /\ pda_start_state = "p0"
  /\ pda_accept_states = {"p1"}
  /\ pda_input = <<>>
  /\ pda_queue = <<>>
  /\ pda_visited = {}
  /\ pda_result = "none"
  /\ pda_pc = "idle"

\* the stack is unbounded in the program; the model follows a run only while
\* every stack it creates is at most MaxStack deep
WithinStack(q) == \A i \in DOMAIN q : Len(q[i].stack) <= MaxStack

\* variant: no configuration is ever recognised as seen before
never_visited(cfg) == FALSE

\* config_key in visited
already_visited(cfg) == cfg \in pda_visited

\* loop iteration on a configuration seen before: continue
PdaSkipVisited ==
  /\ pda_pc = "loop"
  /\ pda_queue # <<>>
  /\ already_visited(Head(pda_queue))
  /\ pda_queue' = Tail(pda_queue)
  /\ UNCHANGED <<pda_transitions, pda_start_state, pda_accept_states,
                 pda_input, pda_visited, pda_result, pda_pc>>
  /\ UNCHANGED <<faDefVars, clVars, faVars, stVars, tmVars, parVars>>

\* loop iteration that finds the input used up in an accept state
PdaAccept ==
  /\ pda_pc = "loop"
  /\ pda_queue # <<>>
  /\ LET cfg == Head(pda_queue)
     IN /\ ~already_visited(cfg)
        /\ cfg.pos = Len(pda_input)
        /\ cfg.state \in pda_accept_states
        /\ pda_visited' = pda_visited \cup {cfg}
  /\ pda_queue' = Tail(pda_queue)
  /\ pda_result' = "True"
  /\ pda_pc' = "done"
  /\ UNCHANGED <<pda_transitions, pda_start_state, pda_accept_states,
                 pda_input>>
  /\ UNCHANGED <<faDefVars, clVars, faVars, stVars, tmVars, parVars>>

\* loop iteration that tries every transition on a new configuration
PdaExpand ==
  /\ pda_pc = "loop"
  /\ pda_queue # <<>>
  /\ LET cfg == Head(pda_queue)
     IN /\ ~already_visited(cfg)
        /\ ~(cfg.pos = Len(pda_input) /\ cfg.state \in pda_accept_states)
        /\ WithinStack(successors(cfg, 1))
        /\ pda_visited' = pda_visited \cup {cfg}
        /\ pda_queue' = Tail(pda_queue) \o successors(cfg, 1)
  /\ UNCHANGED <<pda_transitions, pda_start_state, pda_accept_states,
                 pda_input, pda_result, pda_pc>>
  /\ UNCHANGED <<faDefVars, clVars, faVars, stVars, tmVars, parVars>>

\* the queue ran empty: return False
PdaReturnFalse ==
  /\ pda_pc = "loop"
  /\ pda_queue = <<>>
  /\ pda_result' = "False"
  /\ pda_pc' = "done"
  /\ UNCHANGED <<pda_transitions, pda_start_state, pda_accept_states,
                 pda_input, pda_queue, pda_visited>>
  /\ UNCHANGED <<faDefVars, clVars, faVars, stVars, tmVars, parVars>>

\* ------------------------------------------------------------------------
\* Several calls in progress on one definition (threads of one process)
\* ------------------------------------------------------------------------
ParIdle ==
  /\ nfa_calls = <<>>
  /\ pda_calls = <<>>
  /\ fa_run = <<>>

\* variant: the locals of every call are kept in one place
frame_shared(i) == 1

\* the frame that holds the locals of call i: each call has its own
frame(i) == i

NfaCall(inp) ==
  [input |-> inp, rest |-> inp, current_states |-> {}, next_states |-> {},
   pc |-> "begin", result |-> NoVerdict]

ParFAInit ==
  /\ fa_type = "NFA"
  /\ transitions \in
       {t \in [Keys -> SUBSET States] : RuleCount(t) <= MaxParRules}
  /\ epsilon_transitions \in
       {e \in [States -> SUBSET States] : EpsCount(e) <= MaxEpsRules}
  /\ start_state = "q0"
  /\ accept_states \in (SUBSET States) \ {{}}
  /\ iter_order = SortedOrder
  /\ nfa_calls \in
       {[i \in Runs |-> NfaCall(f[i])] :
          f \in [Runs -> SeqsUpTo(InputChars, MaxParLen)]}
  /\ pda_calls = <<>>
  /\ fa_run = <<>>

\* the writes of one step of call i: its locals go to its frame, its
\* position and its return value are its own
NfaWrite(i, cur, nxt, rest, pc, result) ==
  LET locals == [nfa_calls EXCEPT ![frame(i)].current_states = cur,
                                   ![frame(i)].next_states = nxt]
  IN nfa_calls' = [locals EXCEPT ![i].rest = rest, ![i].pc = pc,
                                 ![i].result = result]

NfaOthers ==
  UNCHANGED <<faDefVars, clVars, faVars, stVars, pdaVars, tmVars, pda_calls,
              fa_run>>

\* current_states = self._epsilon_closure({self.start_state})
NfaBegin(i) ==
  /\ nfa_calls # <<>>
  /\ nfa_calls[i].pc = "begin"
  /\ NfaWrite(i, _epsilon_closure({start_state}),
              nfa_calls[frame(i)].next_states, nfa_calls[i].rest, "for",
              NoVerdict)
  /\ NfaOthers

\* head of the for loop: the return after the last symbol, the return on an
\* undeclared symbol, or the computation of next_states
NfaFor(i) ==
  /\ nfa_calls # <<>>
  /\ nfa_calls[i].pc = "for"
  /\ LET cur == nfa_calls[frame(i)].current_states
         nxt == nfa_calls[frame(i)].next_states
         rest == nfa_calls[i].rest
     IN IF rest = <<>>
        THEN NfaWrite(i, cur, nxt, rest, "done",
                      Verdict(cur \cap accept_states # {}, "states", cur))
        ELSE IF Head(rest) \notin Symbols
        THEN NfaWrite(i, cur, nxt, rest, "done",
                      Verdict(FALSE, "InvalidSymbol", {}))
        ELSE NfaWrite(i, cur,
                      UNION {transitions[<<s, Head(rest)>>] : s \in cur},
                      rest, "check", NoVerdict)
  /\ NfaOthers

\* rest of the loop body: the return on no successor, or the closure
NfaCheck(i) ==
  /\ nfa_calls # <<>>
  /\ nfa_calls[i].pc = "check"
  /\ LET cur == nfa_calls[frame(i)].current_states
         nxt == nfa_calls[frame(i)].next_states
         rest == nfa_calls[i].rest
     IN IF nxt = {}
        THEN NfaWrite(i, cur, nxt, rest, "done",
                      Verdict(FALSE, "NoTransition", {}))
        ELSE NfaWrite(i, _epsilon_closure(nxt), nxt, Tail(rest), "for",
                      NoVerdict)
  /\ NfaOthers

PdaCall == [queue |-> <<initial_config>>, visited |-> {}, pc |-> "loop",
            result |-> "none"]

\* the calls run the curated definitions, each on the same input string
ParPdaInit ==
  /\ pda_transitions \in CuratedRuleLists
  /\ pda_start_state = "p0"
  /\ pda_accept_states = {"p1"}
  /\ pda_input \in SeqsUpTo(PdaAlphabet, MaxPdaLen)
  /\ pda_queue = <<>>
  /\ pda_visited = {}
  /\ pda_result = "none"
  /\ pda_pc = "idle"
  /\ pda_calls = [i \in Runs |-> PdaCall]
  /\ nfa_calls = <<>>
  /\ fa_run = <<>>

\* one iteration of the while loop on the locals queue and visited
pda_iteration(queue, visited) ==
  IF queue = <<>>
  THEN [queue |-> queue, visited |-> visited, pc |-> "done",
        result |-> "False"]
  ELSE LET cfg == Head(queue)
       IN IF cfg \in visited
          THEN [queue |-> Tail(queue), visited |-> visited, pc |-> "loop",
                result |-> "none"]
          ELSE IF cfg.pos = Len(pda_input) /\ cfg.state \in pda_accept_states
          THEN [queue |-> Tail(queue), visited |-> visited \cup {cfg},
                pc |-> "done", result |-> "True"]
          ELSE [queue |-> Tail(queue) \o successors(cfg, 1),
                visited |-> visited \cup {cfg}, pc |-> "loop",
                result |-> "none"]

PdaIterate(i) ==
  /\ pda_calls # <<>>
  /\ pda_calls[i].pc = "loop"
  /\ LET after == pda_iteration(pda_calls[frame(i)].queue,
                                pda_calls[frame(i)].visited)
         locals == [pda_calls EXCEPT ![frame(i)].queue = after.queue,
                                     ![frame(i)].visited = after.visited]
     IN /\ WithinStack(after.queue)
        /\ pda_calls' = [locals EXCEPT ![i].pc = after.pc,
                                       ![i].result = after.result]
  /\ UNCHANGED <<faDefVars, clVars, faVars, stVars, pdaVars, tmVars,
                 nfa_calls, fa_run>>

\* ------------------------------------------------------------------------
\* FiniteAutomaton.simulate, statement by statement (machine.py)
\* ------------------------------------------------------------------------
\* enqueued counts, per state, the appends to the queue of the closure call
\* in progress (deque(states) included); iterations counts the symbols the
\* for loop has taken
FaRun(inp) ==
  [input |-> inp, rest |-> inp, current_states |-> {}, closure |-> {},
   queue |-> <<>>, enqueued |-> [s \in States |-> 0], iterations |-> 0,
   pc |-> "call", result |-> NoVerdict]

\* the accept set has no part in the control flow: one stands for all
BatchInit ==
  /\ fa_type \in {"DFA", "NFA"}
  /\ transitions \in
       {t \in [Keys -> SUBSET States] : RuleCount(t) <= MaxParRules}
  /\ epsilon_transitions \in
       {e \in [States -> SUBSET States] :
          /\ EpsCount(e) <= MaxBatchEps
          /\ fa_type = "DFA" => e = NoEps}
  /\ start_state = "q0"
  /\ accept_states = {"q2"}
  /\ iter_order = SortedOrder
  /\ fa_run \in {FaRun(inp) : inp \in SeqsUpTo(InputChars, MaxParLen)}
  /\ nfa_calls = <<>>
  /\ pda_calls = <<>>

BatchOthers ==
  UNCHANGED <<faDefVars, clVars, faVars, stVars, pdaVars, tmVars, nfa_calls,
              pda_calls>>

\* closure = set(states); queue = deque(states)
enter_closure(run, states) ==
  [run EXCEPT !.closure = states, !.queue = iter(states),
              !.enqueued = [s \in States |-> IF s \in states THEN 1 ELSE 0],
              !.pc = "closure"]

\* variant: every epsilon successor is appended, seen before or not
fresh_states_unfiltered(state, closure) == epsilon_transitions[state]

\* the successors that pass 'if next_state not in closure'
fresh_states(state, closure) == epsilon_transitions[state] \ closure

\* simulate dispatches on the type; _simulate_nfa starts with the closure of
\* the start state
BatchCall ==
  /\ fa_run # <<>>
  /\ fa_run.pc = "call"
  /\ fa_run' = IF fa_type = "DFA"
               THEN [fa_run EXCEPT !.current_states = {start_state},
                                   !.pc = "dfa"]
               ELSE enter_closure(fa_run, {start_state})
  /\ BatchOthers

\* one iteration of 'while queue'
ClosureIterate ==
  /\ fa_run # <<>>
  /\ fa_run.pc = "closure"
  /\ fa_run.queue # <<>>
  /\ LET state == Head(fa_run.queue)
         fresh == fresh_states(state, fa_run.closure)
     IN fa_run' =
          [fa_run EXCEPT
             !.closure = fa_run.closure \cup fresh,
             !.queue = Tail(fa_run.queue) \o iter(fresh),
             !.enqueued = [s \in States |->
                             fa_run.enqueued[s] +
                               (IF s \in fresh THEN 1 ELSE 0)]]
  /\ BatchOthers

\* return closure, assigned to current_states
ClosureReturn ==
  /\ fa_run # <<>>
  /\ fa_run.pc = "closure"
  /\ fa_run.queue = <<>>
  /\ fa_run' = [fa_run EXCEPT !.current_states = fa_run.closure,
                               !.pc = "for"]
  /\ BatchOthers

BatchReturn(run, verdict) == [run EXCEPT !.pc = "done", !.result = verdict]

\* one iteration of the for loop of _simulate_nfa, up to the closure call,
\* or the return after the last symbol
NfaIterate ==
  /\ fa_run # <<>>
  /\ fa_run.pc = "for"
  /\ LET cur == fa_run.current_states
     IN IF fa_run.rest = <<>>
        THEN fa_run' = BatchReturn(fa_run,
                         Verdict(cur \cap accept_states # {}, "states", cur))
        ELSE LET symbol == Head(fa_run.rest)
                 taken == [fa_run EXCEPT
                             !.rest = Tail(fa_run.rest),
                             !.iterations = fa_run.iterations + 1]
                 next_states == UNION {transitions[<<s, symbol>>] : s \in cur}
             IN IF symbol \notin Symbols
                THEN fa_run' = BatchReturn(taken,
                                 Verdict(FALSE, "InvalidSymbol", {}))
                ELSE IF next_states = {}
                THEN fa_run' = BatchReturn(taken,
                                 Verdict(FALSE, "NoTransition", {}))
                ELSE fa_run' = enter_closure(taken, next_states)
  /\ BatchOthers

\* one iteration of the for loop of _simulate_dfa, or its final return
DfaIterate ==
  /\ fa_run # <<>>
  /\ fa_run.pc = "dfa"
  /\ LET cur_state == CHOOSE q \in fa_run.current_states : TRUE
     IN IF fa_run.rest = <<>>
        THEN fa_run' = BatchReturn(fa_run,
                         Verdict(cur_state \in accept_states, "state",
                                 {cur_state}))
        ELSE LET symbol == Head(fa_run.rest)
                 key == <<cur_state, symbol>>
                 taken == [fa_run EXCEPT
                             !.rest = Tail(fa_run.rest),
                             !.iterations = fa_run.iterations + 1]
             IN IF symbol \notin Symbols
                THEN fa_run' = BatchReturn(taken,
                                 Verdict(FALSE, "InvalidSymbol", {}))
                ELSE IF transitions[key] # {}
                THEN fa_run' =
                       [taken EXCEPT !.current_states =
                                       {Head(iter(transitions[key]))}]
                ELSE fa_run' = BatchReturn(taken,
                                 Verdict(FALSE, "NoTransition", {}))
  /\ BatchOthers

\* ------------------------------------------------------------------------
\* TuringMachine (turing.py)
\* ------------------------------------------------------------------------
TmKeys == {"s0", "s1"} \X TapeAlphabet

\* add_transition: the value stored under (from_state, read_symbol)
TmRule(t, w, d) == [to_state |-> t, write_symbol |-> w, direction |-> d]

NoTmRule == [to_state |-> "", write_symbol |-> "", direction |-> ""]

TmRuleUniverse ==
  {TmRule(t, w, d) : t \in TmStates, w \in TapeAlphabet, d \in {"L", "R"}}

\* unary increment written with direction aliases
AliasIncrement ==
  [k \in TmKeys |->
     IF k = <<"s0", "1">> THEN TmRule("s0", "1", "r")
     ELSE IF k = <<"s0", "_">> THEN TmRule("sA", "1", "→")
     ELSE NoTmRule]

\* runs left for ever, marking every cell
AliasLeftRunner ==
  [k \in TmKeys |->
     IF k[1] = "s0" THEN TmRule("s0", "1", "l")
     ELSE TmRule("s1", "1", "←")]

\* erases a 1 in place, then restores it in place and accepts
StayInPlace ==
  [k \in TmKeys |->
     IF k = <<"s0", "1">> THEN TmRule("s1", "_", "S")
     ELSE IF k = <<"s1", "_">> THEN TmRule("sA", "1", "stay")
     ELSE NoTmRule]

\* a dict with at most MaxTmRules keys; NoTmRule marks a key not in the dict
TmTables ==
  {f \in [TmKeys -> TmRuleUniverse \cup {NoTmRule}] :
     Cardinality({k \in TmKeys : f[k] # NoTmRule}) <= MaxTmRules}
    \cup {AliasIncrement, AliasLeftRunner, StayInPlace}

\* str.upper() on the direction tokens in use
upper(d) ==
  CASE d = "r" -> "R"
    [] d = "l" -> "L"
    [] d = "s" -> "S"
    [] d = "stay" -> "STAY"
    [] OTHER -> d

\* variant: the tokens are compared as written
head_move_case_sensitive(d) ==
  IF d = "R" \/ d = "→" THEN 1
  ELSE IF d = "L" \/ d = "←" THEN -1
  ELSE 0

\* head displacement of the if/elif on the direction
head_move(d) ==
  IF upper(d) = "R" \/ d = "→" THEN 1
  ELSE IF upper(d) = "L" \/ d = "←" THEN -1
  ELSE 0

\* tape[i] of a Python list of length n: the 1-based cell, 0 for IndexError
py_index(i, n) ==
  IF 0 <= i /\ i < n THEN i + 1
  ELSE IF -n <= i /\ i < 0 THEN n + i + 1
  ELSE 0

initial_tape(input_string) ==
  [i \in 1..Margin |-> blank_symbol] \o input_string
    \o [i \in 1..Margin |-> blank_symbol]

\* get_final_tape_content: the tape without the blanks at both ends
get_final_tape_content(t) ==
  LET nonblank == {i \in 1..Len(t) : t[i] # blank_symbol}
  IN IF nonblank = {} THEN <<>>
     ELSE SubSeq(t, CHOOSE i \in nonblank : \A j \in nonblank : i <= j,
                    CHOOSE i \in nonblank : \A j \in nonblank : j <= i)

TmInit ==
  /\ tm_transitions \in TmTables
  /\ tm_start_state \in {"s0", "sA", "sR"}
  /\ tm_input \in SeqsUpTo({"1"}, MaxTmLen)
  /\ max_steps \in StepChoices
  /\ tape = initial_tape(tm_input)
  /\ head_position = Margin
  /\ current_state = tm_start_state
  /\ steps = 0
  /\ tm_outcome = "none"
  /\ tm_result = "none"
  /\ tm_pc = "loop"

TmIdle ==
  /\ tm_transitions = [k \in TmKeys |-> NoTmRule]
  /\ tm_start_state = "s0"
  /\ tm_input = <<>>
  /\ max_steps = 0
  /\ tape = <<>>
  /\ head_position = 0
  /\ current_state = "s0"
  /\ steps = 0
  /\ tm_outcome = "none"
  /\ tm_result = "none"
  /\ tm_pc = "idle"

TmFrame == UNCHANGED <<tm_transitions, tm_start_state, tm_input, max_steps>>
TmOthers ==
  UNCHANGED <<faDefVars, clVars, faVars, stVars, pdaVars, parVars>>

\* what simulate returns on each way out of the loop
return_value(outcome) ==
  CASE outcome = "Accepted" -> "True"
    [] outcome = "RejectedState" -> "False"
    [] outcome = "RejectedNoTransition" -> "False"
    [] outcome = "Timeout" -> "False"
    [] OTHER -> "none"

TmHalt(outcome, result) ==
  /\ tm_outcome' = outcome
  /\ tm_result' = result
  /\ tm_pc' = "done"
  /\ UNCHANGED <<tape, head_position, current_state, steps>>
  /\ TmFrame
  /\ TmOthers

\* variant: the ceiling is applied to twice the requested count
loop_condition_doubled == steps < 2 * max_steps

\* variant: the loop admits one iteration more
loop_condition_inclusive == steps <= max_steps

\* while steps < max_steps
loop_condition == steps < max_steps

\* loop iteration that finds the machine in an accept state
TmAccept ==
  /\ tm_pc = "loop"
  /\ loop_condition
  /\ current_state \in TmAcceptStates
  /\ TmHalt("Accepted", return_value("Accepted"))

\* loop iteration that finds the machine in a reject state
TmReject ==
  /\ tm_pc = "loop"
  /\ loop_condition
  /\ current_state \notin TmAcceptStates
  /\ current_state \in TmRejectStates
  /\ TmHalt("RejectedState", return_value("RejectedState"))

TmRunning ==
  /\ tm_pc = "loop"
  /\ loop_condition
  /\ current_state \notin TmAcceptStates
  /\ current_state \notin TmRejectStates

\* tape[head_position] raises IndexError: the call ends with the exception
TmIndexError ==
  /\ TmRunning
  /\ py_index(head_position, Len(tape)) = 0
  /\ TmHalt("IndexError", "none")

\* loop iteration with no entry for (current_state, current_symbol)
TmNoTransition ==
  /\ TmRunning
  /\ py_index(head_position, Len(tape)) # 0
  /\ LET current_symbol == tape[py_index(head_position, Len(tape))]
         key == <<current_state, current_symbol>>
     IN key \notin TmKeys \/ tm_transitions[key] = NoTmRule
  /\ TmHalt("RejectedNoTransition", return_value("RejectedNoTransition"))

\* loop iteration that executes a transition
TmStep ==
  /\ TmRunning
  /\ py_index(head_position, Len(tape)) # 0
  /\ LET cell == py_index(head_position, Len(tape))
         key == <<current_state, tape[cell]>>
     IN /\ key \in TmKeys
        /\ tm_transitions[key] # NoTmRule
        /\ LET transition == tm_transitions[key]
           IN /\ tape' = [tape EXCEPT ![cell] = transition.write_symbol]
              /\ head_position' = head_position + head_move(transition.direction)
              /\ current_state' = transition.to_state
  /\ steps' = steps + 1
  /\ UNCHANGED <<tm_outcome, tm_result, tm_pc>>
  /\ TmFrame
  /\ TmOthers

\* the while condition fails: TIMEOUT, return False
TmTimeout ==
  /\ tm_pc = "loop"
  /\ ~loop_condition
  /\ TmHalt("Timeout", return_value("Timeout"))

\* ------------------------------------------------------------------------
\* Specifications
\* ------------------------------------------------------------------------
\* closure: every epsilon relation over States, every argument set
InitClosure ==
  /\ fa_type = "NFA"
  /\ transitions = NoRules
  /\ epsilon_transitions \in [States -> SUBSET States]
  /\ start_state = "q0"
  /\ accept_states = {"q0"}
  /\ iter_order \in Orders
  /\ ClInit
  /\ FAIdle
  /\ StIdle
  /\ PdaIdle
  /\ TmIdle
  /\ ParIdle

NextClosure == CallClosure
SpecClosure == InitClosure /\ [][NextClosure]_vars

InitFA ==
  FADefInit /\ ClIdle /\ FAInit /\ StIdle /\ PdaIdle /\ TmIdle /\ ParIdle
NextFA == Simulate
SpecFA == InitFA /\ [][NextFA]_vars

\* the stepper never takes the first element of a set: the iteration order
\* only permutes the closure queue, so one order stands for all here
InitStepper ==
  /\ FADefInit /\ iter_order = SortedOrder
  /\ ClIdle /\ FAIdle /\ StInit /\ PdaIdle /\ TmIdle /\ ParIdle
NextStepper ==
  \/ \E symbol \in Symbols : EnterSymbol(symbol)
  \/ \E symbol \in InputChars \ Symbols : EnterInvalidSymbol(symbol)
  \/ EnterLongLine
  \/ Reset
  \/ ShowStatus
  \/ ShowHelp
  \/ Quit
SpecStepper == InitStepper /\ [][NextStepper]_vars

InitPda ==
  FADefIdle /\ ClIdle /\ FAIdle /\ StIdle /\ PdaInit /\ TmIdle /\ ParIdle
NextPda == PdaSkipVisited \/ PdaAccept \/ PdaExpand \/ PdaReturnFalse
SpecPda == InitPda /\ [][NextPda]_vars

\* The search can come back to a configuration only through rules that read
\* no input, so here the definitions drawn from PdaRuleUniverse are those made
\* of such rules; the curated definitions are kept whole.
InitPdaFair ==
  /\ InitPda
  /\ \/ pda_transitions \in CuratedRuleLists
     \/ \A i \in DOMAIN pda_transitions : pda_transitions[i].input = ""
\* a call of simulate that is running keeps running: the loop is plain
\* sequential code, nothing can suspend it
SpecPdaFair == InitPdaFair /\ [][NextPda]_vars /\ WF_vars(NextPda)

InitPar ==
  /\ ClIdle /\ FAIdle /\ StIdle /\ TmIdle
  /\ \/ ParFAInit /\ PdaIdle
     \/ ParPdaInit /\ FADefIdle
NextPar ==
  \/ \E i \in Runs : NfaBegin(i)
  \/ \E i \in Runs : NfaFor(i)
  \/ \E i \in Runs : NfaCheck(i)
  \/ \E i \in Runs : PdaIterate(i)
SpecPar == InitPar /\ [][NextPar]_vars

InitBatch ==
  ClIdle /\ FAIdle /\ StIdle /\ PdaIdle /\ TmIdle /\ BatchInit
NextBatch ==
  BatchCall \/ ClosureIterate \/ ClosureReturn \/ NfaIterate \/ DfaIterate
\* a call of simulate that is running keeps running
SpecBatch == InitBatch /\ [][NextBatch]_vars /\ WF_vars(NextBatch)

InitTm ==
  FADefIdle /\ ClIdle /\ FAIdle /\ StIdle /\ PdaIdle /\ TmInit /\ ParIdle
NextTm ==
  \/ TmAccept
  \/ TmReject
  \/ TmIndexError
  \/ TmNoTransition
  \/ TmStep
  \/ TmTimeout
SpecTm == InitTm /\ [][NextTm]_vars
\* The runs start in s0 and reach the halting states through their rules.
\* The long ceiling serves the runs that reach an end of the tape, which they
\* do soonest on the empty input; the other inputs are run under the short
\* ceilings.
InitTmFair ==
  /\ InitTm
  /\ tm_start_state = "s0"
  /\ max_steps = MaxSteps => tm_input = <<>>
\* a call of simulate that is running keeps running
SpecTmFair == InitTmFair /\ [][NextTm]_vars /\ WF_vars(NextTm)

\* ------------------------------------------------------------------------
\* Reference notions the properties are stated against
\* ------------------------------------------------------------------------
\* t is reachable from s by zero or more epsilon edges: some path exists
EpsPath(s, t) ==
  \E n \in 1..Cardinality(States) :
    \E p \in [1..n -> States] :
      /\ p[1] = s
      /\ p[n] = t
      /\ \A i \in 1..(n - 1) : p[i + 1] \in epsilon_transitions[p[i]]

EpsReachable(S) == {t \in States : \E s \in S : EpsPath(s, t)}

\* some sequence of transition/epsilon choices consumes w and ends accepting
ExistsAcceptingRun(w) ==
  \E r \in [0..Len(w) -> States] :
    /\ EpsPath(start_state, r[0])
    /\ \A i \in 1..Len(w) :
         \E t \in transitions[<<r[i - 1], w[i]>>] : EpsPath(t, r[i])
    /\ r[Len(w)] \in accept_states

\* the pushdown step relation: a rule moves a configuration when its from-state
\* is the current state, its input symbol is the next unread symbol or
\* epsilon, and its stack-top is the current top or epsilon (then nothing is
\* popped, whatever the stack holds)
RuleMoves(t, c, w) ==
  /\ t.from = c.state
  /\ \/ t.input = ""
     \/ c.pos < Len(w) /\ t.input = w[c.pos + 1]
  /\ \/ t.stack_top = ""
     \/ c.stack # <<>> /\ t.stack_top = c.stack[Len(c.stack)]

RuleResult(t, c) ==
  LET kept == IF t.stack_top = "" THEN c.stack
              ELSE SubSeq(c.stack, 1, Len(c.stack) - 1)
      pushed == [i \in 1..Len(t.stack_push) |->
                   t.stack_push[Len(t.stack_push) + 1 - i]]
  IN [state |-> t.to,
      pos |-> IF t.input = "" THEN c.pos ELSE c.pos + 1,
      stack |-> kept \o pushed]

PdaRuleSet == {pda_transitions[i] : i \in DOMAIN pda_transitions}

StepsOf(C, w) ==
  {RuleResult(t, c) : <<t, c>> \in
     {tc \in PdaRuleSet \X C : RuleMoves(tc[1], tc[2], w)}}

\* configurations reachable with stacks at most MaxStack deep
RECURSIVE ReachFrom(_, _)
ReachFrom(C, w) ==
  LET N == C \cup {c \in StepsOf(C, w) : Len(c.stack) <= MaxStack}
  IN IF N = C THEN C ELSE ReachFrom(N, w)

Reachable(w) == ReachFrom({[state |-> pda_start_state, pos |-> 0,
                            stack |-> <<"$">>]}, w)

\* the reachable configuration space is finite and lies within MaxStack
FiniteSpace(w) ==
  \A c \in StepsOf(Reachable(w), w) : Len(c.stack) <= MaxStack

AcceptReachable(w) ==
  \E c \in Reachable(w) : c.pos = Len(w) /\ c.state \in pda_accept_states

\* the same machine on an ideal tape: cells indexed by integers, blank outside
\* the input, head starting on the first input symbol (cell 0)
IdealCells == (0 - MaxSteps - 1)..(MaxTmLen + MaxSteps + 1)

IdealStart ==
  [state |-> tm_start_state, head |-> 0,
   cells |-> [i \in IdealCells |->
                IF 0 <= i /\ i < Len(tm_input) THEN tm_input[i + 1]
                ELSE blank_symbol]]

IdealHalted(c) ==
  \/ c.state \in TmAcceptStates \cup TmRejectStates
  \/ <<c.state, c.cells[c.head]>> \notin TmKeys
  \/ tm_transitions[<<c.state, c.cells[c.head]>>] = NoTmRule

IdealMove(c) ==
  LET r == tm_transitions[<<c.state, c.cells[c.head]>>]
      d == r.direction
  IN [state |-> r.to_state,
      head |-> IF d \in {"R", "r", "→"} THEN c.head + 1
               ELSE IF d \in {"L", "l", "←"} THEN c.head - 1
               ELSE c.head,
      cells |-> [c.cells EXCEPT ![c.head] = r.write_symbol]]

\* the ideal configuration after k transitions (it stays put once halted)
RECURSIVE IdealAfter(_)
IdealAfter(k) ==
  IF k = 0 THEN IdealStart
  ELSE LET c == IdealAfter(k - 1)
       IN IF IdealHalted(c) THEN c ELSE IdealMove(c)

IdealOutcome(c, k) ==
  IF k >= max_steps THEN "Timeout"
  ELSE IF c.state \in TmAcceptStates THEN "Accepted"
  ELSE IF c.state \in TmRejectStates THEN "RejectedState"
  ELSE IF IdealHalted(c) THEN "RejectedNoTransition"
  ELSE "none"

IdealContent(c) ==
  LET nonblank == {i \in IdealCells : c.cells[i] # blank_symbol}
  IN IF nonblank = {} THEN <<>>
     ELSE LET lo == CHOOSE i \in nonblank : \A j \in nonblank : i <= j
              hi == CHOOSE i \in nonblank : \A j \in nonblank : j <= i
          IN [i \in 1..(hi - lo + 1) |-> c.cells[lo + i - 1]]

OverAlphabet(w) == \A i \in DOMAIN w : w[i] \in Symbols

\* ------------------------------------------------------------------------
\* Properties
\* ------------------------------------------------------------------------
\* C1: simulate reports acceptance iff some sequence of transition/epsilon
\* choices from the start state consumes the whole input and ends in an
\* accept state, for DFA- and NFA-typed definitions alike.
C1_AcceptIffRunExists ==
  (fa_pc = "done" /\ OverAlphabet(fa_input))
    => (fa_result.accepted <=> ExistsAcceptingRun(fa_input))

\* C2: feeding the symbols of an input one by one to the interactive stepper
\* leaves it in the final configuration batch simulate reports for that input,
\* also when some or all branches have no transition.
C2_StepperMatchesBatch ==
  st_pc \in {"prompt", "exited"} =>
    LET r == simulate(st_typed)
    IN /\ r.kind \in {"state", "states"}
       /\ current_states = r.states

\* C6: when the reachable configuration space is finite, the pushdown simulate
\* returns True iff a configuration with the input used up and an accept state
\* is reachable from (start, 0, [bottom marker]) by the transition rules;
\* acceptance is by final state only.
C6_PdaAcceptIffReachable ==
  (pda_pc = "done" /\ FiniteSpace(pda_input))
    => (pda_result = "True" <=> AcceptReachable(pda_input))

\* C7: the pushdown search explores at most the caller-supplied
\* maxConfigurations configurations and then stops with
\* ConfigurationLimitExceeded, whatever the definition.
C7_PdaExplorationCeiling ==
  Cardinality(pda_visited) <= MaxConfigurations

\* C8: in every reachable state of a Turing machine run the head position
\* designates an existing tape cell, so no read or write falls outside the
\* tape or onto a cell of the opposite end.
C8_HeadOnTape ==
  tm_pc \in {"loop", "done"} =>
    (0 <= head_position /\ head_position < Len(tape))

\* C9: the run is step-for-step equivalent to the same machine on an ideal
\* bi-infinite tape, blank outside the input, head on the first input symbol:
\* same state, same symbol read at each step, same verdict and same non-blank
\* tape content.
C9_MatchesIdealTape ==
  tm_pc \in {"loop", "done"} =>
    LET c == IdealAfter(steps)
    IN /\ current_state = c.state
       /\ TmRunning =>
            /\ py_index(head_position, Len(tape)) # 0
            /\ tape[py_index(head_position, Len(tape))] = c.cells[c.head]
       /\ tm_pc = "done" => tm_outcome = IdealOutcome(c, steps)
       /\ get_final_tape_content(tape) = IdealContent(c)

\* C10: with maxSteps = 0 and a start state that is not an accept state the
\* outcome is Timeout and no transition is executed, also when the start state
\* is a reject state or has no transition for the first symbol.
C10_ZeroStepsTimeout ==
  (max_steps = 0 /\ tm_start_state \notin TmAcceptStates /\ tm_pc # "idle") =>
    /\ steps = 0
    /\ current_state = tm_start_state
    /\ tape = initial_tape(tm_input)
    /\ head_position = Margin
    /\ tm_outcome \in {"none", "Timeout"}
    /\ tm_pc = "done" => tm_outcome = "Timeout"

C10_Witness ==
  /\ max_steps = 0
  /\ tm_start_state \in TmRejectStates
  /\ tm_input = <<"1">>
  /\ tm_pc = "done"
  /\ tm_outcome = "Timeout"
  /\ steps = 0

\* C3: _epsilon_closure is extensive: every element of the argument set is in
\* the returned closure, cycles and self-loops included.
C3_ClosureExtensive ==
  cl_pc = "done" => cl_states \subseteq cl_result

C3_Witness ==
  /\ cl_pc = "done"
  /\ cl_states = {"q0", "q2"}
  /\ "q0" \in epsilon_transitions["q0"]
  /\ "q2" \in epsilon_transitions["q1"]
  /\ "q1" \in epsilon_transitions["q2"]
  /\ cl_result = States

\* C4: _epsilon_closure is idempotent: closing a closure again returns it
\* unchanged.
C4_ClosureIdempotent ==
  cl_pc = "done" => _epsilon_closure(cl_result) = cl_result

C4_Witness ==
  /\ cl_pc = "done"
  /\ cl_states = {"q0"}
  /\ epsilon_transitions["q0"] = {"q1"}
  /\ epsilon_transitions["q1"] = {"q2"}
  /\ cl_result = States

\* C5: _epsilon_closure(S) is exactly the set of states reachable from some
\* element of S by zero or more epsilon edges.
C5_ClosureExact ==
  cl_pc = "done" => cl_result = EpsReachable(cl_states)

C5_Witness ==
  /\ cl_pc = "done"
  /\ cl_states = {"q1"}
  /\ epsilon_transitions["q0"] = {"q1"}
  /\ epsilon_transitions["q1"] = {"q1", "q2"}
  /\ cl_result = {"q1", "q2"}

\* C11: the value returned by the Turing machine run tells Accepted, Rejected
\* by reject state, Rejected by missing transition and Timeout apart: no two
\* of these outcomes return the same value.
TmOutcomes == {"Accepted", "RejectedState", "RejectedNoTransition", "Timeout"}

C11_ReturnTellsOutcome ==
  (tm_pc = "done" /\ tm_outcome \in TmOutcomes) =>
    \A o \in TmOutcomes \ {tm_outcome} : return_value(o) # tm_result

\* C12: a batch run that meets a symbol outside the declared alphabet ends
\* with an InvalidSymbol result whose variant differs from the variant of
\* every rejection (no transition, or input consumed in a non-accepting
\* state), so that a caller can tell them apart.
Rejections ==
  {Verdict(FALSE, "NoTransition", {})}
    \cup {Verdict(FALSE, "state", {q}) : q \in States}
    \cup {Verdict(FALSE, "states", S) : S \in SUBSET States}

C12_InvalidSymbolSeparate ==
  (fa_pc = "done" /\ fa_result.kind = "InvalidSymbol") =>
    \A r \in Rejections : result_variant(r) # result_variant(fa_result)

\* C13: a pushdown run on an input that holds a symbol outside the declared
\* input alphabet ends with the result InvalidSymbol, distinct from rejection.
HasStraySymbol(w) == \E i \in DOMAIN w : w[i] \notin PdaAlphabet

C13_PdaReportsInvalidSymbol ==
  (pda_pc = "done" /\ HasStraySymbol(pda_input)) =>
    pda_result = "InvalidSymbol"

\* C14: on a DFA-typed definition simulate is deterministic: a second run on
\* the same definition and input, in a process whose sets iterate in any
\* other order, returns the same verdict and the same final state.
RECURSIVE dfa_loop_under(_, _, _)
dfa_loop_under(order, cur_state, rest) ==
  IF rest = <<>>
  THEN Verdict(cur_state \in accept_states, "state", {cur_state})
  ELSE LET symbol == Head(rest)
           key == <<cur_state, symbol>>
           targets == SelectSeq(order, LAMBDA q : q \in transitions[key])
       IN IF symbol \notin Symbols
          THEN Verdict(FALSE, "InvalidSymbol", {})
          ELSE IF transitions[key] # {}
          THEN dfa_loop_under(order, Head(targets), Tail(rest))
          ELSE Verdict(FALSE, "NoTransition", {})

C14_DfaRunsAgree ==
  (fa_pc = "done" /\ fa_type = "DFA") =>
    \A order \in Orders :
      dfa_loop_under(order, start_state, fa_input) = fa_result

\* C15: after a step on a declared symbol for which no state of the current
\* configuration has a transition, the configuration is the empty (dead)
\* set, never the configuration held before the step.
C15_StuckStepEmptiesConfiguration ==
  st_out = "stuck" => current_states = {}

\* the rules of the definition that the loop body applies to the configuration
\* at the head of the queue and that push at least two characters
LongPushes ==
  IF pda_pc = "loop" /\ pda_queue # <<>>
  THEN {i \in DOMAIN pda_transitions :
          /\ applies(pda_transitions[i], Head(pda_queue))
          /\ Len(pda_transitions[i].stack_push) >= 2}
  ELSE {}

\* C16 (as stated): when a rule with a multi-character push string is
\* applied, the leftmost character of the push string ends up nearest the
\* bottom of the stack among the characters pushed by that rule.
C16_LeftmostNearestBottom ==
  \A i \in LongPushes :
    LET t == pda_transitions[i]
        stack == new_config(t, Head(pda_queue)).stack
        n == Len(t.stack_push)
    IN stack[Len(stack) - n + 1] = t.stack_push[1]

\* C16 (amended): when a rule with a multi-character push string is applied,
\* the leftmost character of the push string ends up on top of the stack and
\* the pushed characters, read from the top down, spell the push string.
C16_LeftmostOnTop ==
  \A i \in LongPushes :
    LET t == pda_transitions[i]
        stack == new_config(t, Head(pda_queue)).stack
        n == Len(t.stack_push)
    IN \A k \in 1..n : stack[Len(stack) + 1 - k] = t.stack_push[k]

C16_Witness ==
  /\ pda_transitions = DoublePushRules
  /\ \E i \in DOMAIN pda_queue : pda_queue[i].stack = <<"$", "A", "A">>

\* C17: stack round trip. From any configuration with a stack the loop body
\* works on, a rule that pushes w without popping followed by one popping
\* rule per character of w, taken in left-to-right reading order, can be
\* applied and leaves a stack equal to the original one.
PushStrings == SeqsUpTo({"A", "B"}, 2)

RECURSIVE PopsApply(_, _)
PopsApply(cfg, w) ==
  \/ w = <<>>
  \/ LET pop == PdaRule(cfg.state, "", Head(w), cfg.state, <<>>)
     IN applies(pop, cfg) /\ PopsApply(new_config(pop, cfg), Tail(w))

RECURSIVE PopAll(_, _)
PopAll(cfg, w) ==
  IF w = <<>> THEN cfg
  ELSE PopAll(new_config(PdaRule(cfg.state, "", Head(w), cfg.state, <<>>),
                         cfg), Tail(w))

C17_PushPopRoundTrip ==
  \A i \in DOMAIN pda_queue : \A w \in PushStrings :
    LET cfg == pda_queue[i]
        push == PdaRule(cfg.state, "", "", cfg.state, w)
    IN applies(push, cfg) =>
         /\ PopsApply(new_config(push, cfg), w)
         /\ PopAll(new_config(push, cfg), w).stack = cfg.stack

\* the run on "a" has pushed AB over the bottom marker, popped A, popped B
C17_Witness ==
  /\ pda_transitions = RoundTripRules
  /\ Config("p0", 0, <<"$">>) \in pda_visited
  /\ Config("p0", 1, <<"$", "B", "A">>) \in pda_visited
  /\ Config("p0", 1, <<"$", "B">>) \in pda_visited
  /\ Config("p1", 1, <<"$">>) \in pda_visited

\* C19: the interactive session never waits at the prompt for another symbol
\* while its current configuration holds an accept state, be it the initial
\* configuration, the one after a step or the one after a reset.
C19_NoPromptWhileAccepting ==
  st_pc = "prompt" => current_states \cap accept_states = {}

\* the configurations the loop can dequeue, found with the loop's own
\* successor computation and followed while stacks stay within MaxStack
RECURSIVE SearchSpace(_)
SearchSpace(C) ==
  LET next == UNION {{successors(c, 1)[i] : i \in DOMAIN successors(c, 1)} :
                       c \in C}
      N == C \cup {c \in next : Len(c.stack) <= MaxStack}
  IN IF N = C THEN C ELSE SearchSpace(N)

\* the set of configurations reachable from the initial one is finite: no
\* reachable configuration has a successor deeper than MaxStack
SearchFinite ==
  \A c \in SearchSpace({initial_config}) : WithinStack(successors(c, 1))

\* C20: whenever the set of configurations reachable from the initial
\* configuration on the given input is finite, simulate terminates, even when
\* epsilon rules form cycles among the configurations.
C20_FiniteSearchTerminates ==
  (pda_pc = "loop" /\ SearchFinite) ~> (pda_pc = "done")

\* a finished run of a definition whose epsilon rule leads from the start
\* state back to it, the repeated configuration having been dequeued again
C20_Witness ==
  /\ pda_pc = "done"
  /\ pda_result = "False"
  /\ \E i \in DOMAIN pda_transitions :
       pda_transitions[i] = PdaRule("p0", "", "", "p0", <<>>)
  /\ initial_config \in pda_visited

\* the value a call of the pushdown simulate returns when it runs alone
RECURSIVE PdaAlone(_, _)
PdaAlone(queue, visited) ==
  LET after == pda_iteration(queue, visited)
  IN IF after.pc = "done" THEN after.result
     ELSE PdaAlone(after.queue, after.visited)

\* C18: simulations on the same definition whose steps interleave each
\* return the verdict they return when run alone, and no step of any of them
\* changes the definition.
C18_InterleavedRunsAgree ==
  [][/\ faDefVars' = faDefVars
     /\ <<pda_transitions, pda_start_state, pda_accept_states>>' =
          <<pda_transitions, pda_start_state, pda_accept_states>>
     /\ \A i \in DOMAIN nfa_calls :
          nfa_calls[i]'.pc = "done" =>
            nfa_calls[i]'.result = _simulate_nfa(nfa_calls[i].input)
     /\ \A i \in DOMAIN pda_calls :
          pda_calls[i]'.pc = "done" =>
            pda_calls[i]'.result = PdaAlone(<<initial_config>>, {})]_vars

\* call 1 has returned an accepting verdict while call 2, on another input,
\* is between two iterations of its loop
C18_Witness ==
  /\ nfa_calls # <<>>
  /\ nfa_calls[1].pc = "done"
  /\ nfa_calls[1].result.kind = "states"
  /\ nfa_calls[1].result.accepted
  /\ nfa_calls[2].pc = "for"
  /\ nfa_calls[2].input # nfa_calls[1].input
  /\ nfa_calls[2].rest # nfa_calls[2].input

\* C21: a successor is enqueued only if it has not been visited, so the queue
\* never holds a configuration that is in the visited set, nor two copies of
\* one configuration.
C21_QueueHoldsOnlyNew ==
  /\ \A i \in DOMAIN pda_queue : pda_queue[i] \notin pda_visited
  /\ \A i, j \in DOMAIN pda_queue :
       pda_queue[i] = pda_queue[j] => i = j

\* C22: for the configuration at the head of the queue a rule produces a
\* successor exactly when its from-state is the current state, its input
\* symbol is the next unread symbol or epsilon, and its stack-top is the
\* current stack top or epsilon; an epsilon stack-top rule is applicable
\* whatever the stack holds, the empty stack included.
C22_RuleAppliesExactlyWhenMatching ==
  (pda_pc = "loop" /\ pda_queue # <<>>) =>
    \A i \in DOMAIN pda_transitions :
      applies(pda_transitions[i], Head(pda_queue))
        <=> RuleMoves(pda_transitions[i], Head(pda_queue), pda_input)

\* C23: every configuration the search creates has 0 <= cursor <= len(input);
\* a rule application advances the cursor by exactly one when the rule reads
\* a real symbol and leaves it where it is when the rule reads epsilon, and
\* no rule that reads a real symbol fires once the cursor is at len(input).
C23_CursorWithinInput ==
  /\ \A i \in DOMAIN pda_queue :
       pda_queue[i].pos \in 0..Len(pda_input)
  /\ \A c \in pda_visited : c.pos \in 0..Len(pda_input)
  /\ (pda_pc = "loop" /\ pda_queue # <<>>) =>
       \A i \in DOMAIN pda_transitions :
         LET t == pda_transitions[i]
             cfg == Head(pda_queue)
         IN applies(t, cfg) =>
              /\ t.input # "" => cfg.pos < Len(pda_input)
              /\ new_config(t, cfg).pos =
                   IF t.input # "" THEN cfg.pos + 1 ELSE cfg.pos

\* the accepted run of the balanced definition on "ab": two reading rules,
\* then the epsilon rule at the end of the input
C23_Witness ==
  /\ pda_transitions = BalancedRules
  /\ pda_input = <<"a", "b">>
  /\ pda_result = "True"
  /\ Config("p0", 2, <<"$">>) \in pda_visited
  /\ Config("p1", 2, <<"$">>) \in pda_visited

\* C24: a step of the interactive session on a symbol outside the declared
\* alphabet fails with the invalid-symbol message and leaves the current
\* configuration and the input so far as they were.
C24_InvalidSymbolKeepsSession ==
  [][(\E symbol \in InputChars \ Symbols : EnterInvalidSymbol(symbol)) =>
       /\ st_out' = "invalid"
       /\ current_states' = current_states
       /\ input_so_far' = input_so_far]_vars

\* an undeclared symbol was entered after a step had moved the session
C24_Witness ==
  /\ st_out = "invalid"
  /\ input_so_far # <<>>
  /\ current_states # initial_states

\* C25: the status and help queries leave the current configuration and the
\* input so far unchanged, and for every declared symbol the configuration
\* they report is epsilon-closed and is the configuration that a step on that
\* symbol produces.
C25_QueryPredictsStep ==
  [][/\ (ShowStatus \/ ShowHelp) =>
          /\ current_states' = current_states
          /\ input_so_far' = input_so_far
     /\ \A symbol \in Symbols :
          LET reported == available_transitions(current_states)[symbol]
          IN /\ _epsilon_closure(reported) = reported
             /\ EnterSymbol(symbol) => current_states' = reported]_vars

\* C26: whatever steps, queries and failed steps came before, a reset puts
\* the session in the configuration closure({start}) with an empty input so
\* far, the configuration the session starts in, for DFA-typed and NFA-typed
\* definitions alike.
C26_ResetRestoresStart ==
  [][Reset =>
       /\ current_states' = _epsilon_closure({start_state})
       /\ current_states' = initial_states
       /\ input_so_far' = <<>>]_vars

\* a session of an NFA-typed definition whose start state has an epsilon
\* successor, just after a reset
C26_Witness ==
  /\ st_out = "reset"
  /\ fa_type = "NFA"
  /\ epsilon_transitions[start_state] \ {start_state} # {}
  /\ current_states # {start_state}

\* the displacement each direction token stands for
TokenMove(d) ==
  CASE d \in {"R", "r", "→"} -> 1
    [] d \in {"L", "l", "←"} -> -1
    [] d \in {"S", "s", "STAY", "stay"} -> 0

\* C27: an executed transition changes only the tape cell that was under the
\* head before the move, moves the head by -1 for a Left token, +1 for a
\* Right token and 0 for Stay (whatever the case of the token, arrows
\* included), sets the state to the rule's target and adds exactly one to
\* the step count.
C27_TransitionFrame ==
  [][steps' # steps =>
       LET cell == py_index(head_position, Len(tape))
           rule == tm_transitions[<<current_state, tape[cell]>>]
       IN /\ Len(tape') = Len(tape)
          /\ \A j \in DOMAIN tape : j # cell => tape'[j] = tape[j]
          /\ tape'[cell] = rule.write_symbol
          /\ head_position' = head_position + TokenMove(rule.direction)
          /\ current_state' = rule.to_state
          /\ steps' = steps + 1]_vars

\* two Stay transitions, written S and stay, have rewritten the cell under
\* the head and left the head on it
C27_Witness ==
  /\ tm_transitions = StayInPlace
  /\ steps = 2
  /\ current_state = "sA"
  /\ head_position = Margin
  /\ tape[Margin + 1] = "1"

\* C28: a Turing machine run always terminates and executes at most
\* max_steps transitions: the step count never exceeds max_steps, and a run
\* that has executed max_steps transitions without reaching an accept or
\* reject state ends with Timeout.
C28_StepCeiling ==
  /\ [](steps <= max_steps)
  /\ []((/\ tm_pc = "done"
         /\ steps = max_steps
         /\ current_state \notin TmAcceptStates \cup TmRejectStates)
          => tm_outcome = "Timeout")
  /\ <>(tm_pc = "done")

\* a machine that never halts, stopped by the ceiling after three transitions
C28_Witness ==
  /\ tm_pc = "done"
  /\ tm_outcome = "Timeout"
  /\ max_steps = 3
  /\ steps = 3

\* C29: a run that enters an accept state by its k-th transition, k <=
\* max_steps, reports acceptance, also when k = max_steps and the state is
\* entered by the last permitted transition; likewise a reject state entered
\* by the last permitted transition is reported as an explicit reject.
C29_HaltingStateAtCeilingReported ==
  (tm_pc = "done" /\ steps >= 1) =>
    /\ current_state \in TmAcceptStates => tm_outcome = "Accepted"
    /\ current_state \in TmRejectStates \ TmAcceptStates =>
         tm_outcome = "RejectedState"

\* C30: batch simulation terminates for every definition and every input,
\* epsilon cycles and self-loops included: each closure computation appends
\* every state to its queue at most once, the loop takes each input symbol
\* once, and the call returns.
C30_BatchTerminates ==
  /\ [](fa_run # <<>> => \A s \in States : fa_run.enqueued[s] <= 1)
  /\ [](fa_run # <<>> =>
          fa_run.iterations + Len(fa_run.rest) = Len(fa_run.input))
  /\ <>(fa_run # <<>> /\ fa_run.pc = "done")

\* a call that has returned after a step through an epsilon cycle q1 -> q2 ->
\* q1: both states were appended to the queue, each once
C30_Witness ==
  /\ fa_run # <<>>
  /\ fa_run.pc = "done"
  /\ fa_run.result.kind = "states"
  /\ fa_run.iterations = 1
  /\ "q2" \in epsilon_transitions["q1"]
  /\ "q1" \in epsilon_transitions["q2"]
  /\ fa_run.enqueued["q1"] = 1
  /\ fa_run.enqueued["q2"] = 1

====
